---------------------------- MODULE Spec2Model ----------------------------
(***************************************************************************)
(* Model of scripts/hash_tree.py and scripts/make_manifest.py (ELEKTO EU   *)
(* evidence pipeline): enumeration of a directory tree, per-file SHA-256,  *)
(* the root hash over the sorted per-file hashes, and the manifest build.  *)
(*                                                                         *)
(* Strings are sequences of one-character strings, paths are sequences of  *)
(* names.  Three specifications share the definitions:                     *)
(*   SpecRoot  the root-hash computation as a pure function of an entry    *)
(*             list (hash_tree lines 58-60, compute_root_hash);            *)
(*   SpecHT    runs of the hash_tree.py command, one step per statement    *)
(*             that touches the filesystem, interleaved with other         *)
(*             processes that delete or protect files;                     *)
(*   SpecMM    runs of the make_manifest.py command.                       *)
(***************************************************************************)
EXTENDS Integers, Sequences, FiniteSets, Bags, TLC

VARIABLES
    oracle,     \* SHA-256, lazily sampled: the preimages hashed so far
    listA,      \* SpecRoot: a list of file entries
    listB,      \* SpecRoot: a second list of file entries
    roots,      \* SpecRoot: the results computed for listA and listB
    fs,         \* the filesystem: path -> [kind, data, readable]
    day,        \* the UTC date, as a day index
    clock,      \* number of timestamps read so far (datetime.now)
    pc,         \* SpecHT: position of the running hash_tree.py process
    args,       \* SpecHT: [target, output_dir] of the running process
    listing,    \* SpecHT: sorted(directory.rglob("*")), as snapshotted
    idx,        \* SpecHT: position of the for loop in listing
    entries,    \* SpecHT: the entries list of hash_tree
    result,     \* SpecHT: the dict returned by hash_tree
    htRuns,     \* SpecHT: history of finished runs
    envCount,   \* number of steps other processes took on the filesystem
    last,       \* SpecMM: arguments and outcome of the last manifest build
    mmRuns      \* SpecMM: number of manifest builds so far

vars == << oracle, listA, listB, roots, fs, day, clock, pc, args, listing,
           idx, entries, result, htRuns, envCount, last, mmRuns >>

---------------------------------------------------------------------------
(* Bounds of the model.                                                    *)

\* Width of a hex digest in the model (64 in the program).
DigestLen == 2
\* Longest entry list of SpecRoot.
MaxFiles == 3
\* Number of distinct per-file digests SpecRoot draws from.
NumDigests == 3

---------------------------------------------------------------------------
(* Characters and strings.                                                 *)

\* The characters the model uses, in code point order (ASCII).
Alphabet ==
    << "-", ".", "/",
       "0", "1", "2", "3", "4", "5", "6", "7", "8", "9",
       "I", "M", "_",
       "a", "b", "c", "d", "e", "f", "g", "h", "i", "j", "k", "l", "m",
       "n", "o", "p", "q", "r", "s", "t", "u", "v", "w", "x", "y", "z" >>

\* Rank of a character in code point order: Python compares str by code point.
Ord(c) == CHOOSE i \in 1..Len(Alphabet) : Alphabet[i] = c

\* s < t for Python str: the first differing character decides, a proper
\* prefix is smaller.
RECURSIVE StrLess(_, _)
StrLess(s, t) ==
    IF t = << >> THEN FALSE
    ELSE IF s = << >> THEN TRUE
    ELSE IF Head(s) # Head(t) THEN Ord(Head(s)) < Ord(Head(t))
    ELSE StrLess(Tail(s), Tail(t))

\* str.startswith
StartsWith(s, prefix) ==
    /\ Len(prefix) <= Len(s)
    /\ SubSeq(s, 1, Len(prefix)) = prefix

\* str.endswith
EndsWith(s, suffix) ==
    /\ Len(suffix) <= Len(s)
    /\ SubSeq(s, Len(s) - Len(suffix) + 1, Len(s)) = suffix

\* "".join(strs)
RECURSIVE JoinStr(_)
JoinStr(strs) ==
    IF strs = << >> THEN << >> ELSE Head(strs) \o JoinStr(Tail(strs))

\* sorted(strs) for a list of str (insertion sort; duplicates are kept).
RECURSIVE InsertStr(_, _)
InsertStr(x, s) ==
    IF s = << >> THEN << x >>
    ELSE IF StrLess(x, Head(s)) THEN << x >> \o s
    ELSE << Head(s) >> \o InsertStr(x, Tail(s))

RECURSIVE SortedStrs(_)
SortedStrs(strs) ==
    IF strs = << >> THEN << >>
    ELSE InsertStr(Head(strs), SortedStrs(Tail(strs)))

---------------------------------------------------------------------------
(* SHA-256.                                                                *)

HexDigits ==
    << "0", "1", "2", "3", "4", "5", "6", "7",
       "8", "9", "a", "b", "c", "d", "e", "f" >>

\* n as `width' lowercase hex digits, zero padded.
RECURSIVE ToHex(_, _)
ToHex(n, width) ==
    IF width = 0 THEN << >>
    ELSE ToHex(n \div 16, width - 1) \o << HexDigits[(n % 16) + 1] >>

RECURSIVE Pow16(_)
Pow16(k) == IF k = 0 THEN 1 ELSE 16 * Pow16(k - 1)

\* Position of preimage m in the oracle; one past the end when never hashed.
OracleIndex(orc, m) ==
    IF \E i \in 1..Len(orc) : orc[i] = m
    THEN CHOOSE i \in 1..Len(orc) : orc[i] = m
    ELSE Len(orc) + 1

\* The oracle after m has been hashed.
OracleAfter(orc, m) ==
    IF \E i \in 1..Len(orc) : orc[i] = m THEN orc ELSE Append(orc, m)

\* hashlib.sha256(m).hexdigest(): a fixed-width hex string that is the same
\* for the same bytes and, hashing being collision free, different for
\* different bytes.  The i-th distinct preimage gets the digits of i * 101
\* (a unit modulo 16^DigestLen), so digest order is unrelated to hashing
\* order.
HexDigest(orc, m) ==
    ToHex((OracleIndex(orc, m) * 101) % Pow16(DigestLen), DigestLen)

\* The preimage of a str that is encoded and hashed.
StrBytes(s) == [kind |-> "str", text |-> s]

---------------------------------------------------------------------------
(* The root hash.                                                          *)

\* [e["sha256"] for e in entries]
RECURSIVE Sha256Of(_)
Sha256Of(es) ==
    IF es = << >> THEN << >>
    ELSE << Head(es).sha256 >> \o Sha256Of(Tail(es))

\* The hashes joined in discovery order, the sort left out.
HashTreeRootInput_Unsorted(es) == StrBytes(JoinStr(Sha256Of(es)))

\* hash_tree: sorted_hashes = sorted(e["sha256"] for e in entries), then
\* "".join(sorted_hashes).encode() is hashed.
HashTreeRootInput(es) == StrBytes(JoinStr(SortedStrs(Sha256Of(es))))

\* A list without its repeated elements.
RECURSIVE Distinct(_)
Distinct(strs) ==
    IF strs = << >> THEN << >>
    ELSE IF \E i \in 1..Len(Tail(strs)) : Tail(strs)[i] = Head(strs)
    THEN Distinct(Tail(strs))
    ELSE << Head(strs) >> \o Distinct(Tail(strs))

\* The hashes sorted as a set, sorted(set(...)): equal digests counted once.
compute_root_hash_input_Dedup(files) ==
    StrBytes(JoinStr(SortedStrs(Distinct(Sha256Of(files)))))

\* compute_root_hash(files): the same computation in make_manifest.py.
compute_root_hash_input(files) ==
    StrBytes(JoinStr(SortedStrs(Sha256Of(files))))

---------------------------------------------------------------------------
(* SpecRoot: the root hash as a function of the entry list.                *)

\* The per-file digests SpecRoot draws from.
SomeDigests == { ToHex((i * 101) % Pow16(DigestLen), DigestLen) : i \in 1..NumDigests }

\* An entry of listA or listB; the path is its position in discovery order.
RootEntry(n, d) == [path |-> ToHex(n, 1), sha256 |-> d]

\* No hash_tree.py process is running.
NoArgs == [target |-> << >>, output_dir |-> << >>, env0 |-> 0, walked |-> {}]

IdleHT ==
    /\ pc = "idle"
    /\ args = NoArgs
    /\ listing = << >>
    /\ idx = 1
    /\ entries = << >>
    /\ result = [status |-> "none"]
    /\ htRuns = << >>

IdleMM ==
    /\ last = [outcome |-> "none"]
    /\ mmRuns = 0

InitRoot ==
    /\ oracle = << >>
    /\ listA = << >>
    /\ listB = << >>
    /\ roots = [status |-> "none"]
    /\ fs = << >>
    /\ day = 0
    /\ clock = 0
    /\ envCount = 0
    /\ IdleHT
    /\ IdleMM

\* One more file is discovered for the first list.
DiscoverA(d) ==
    /\ roots.status = "none"
    /\ listB = << >>
    /\ Len(listA) < MaxFiles
    /\ listA' = Append(listA, RootEntry(Len(listA), d))
    /\ UNCHANGED << oracle, listB, roots, fs, day, clock, pc, args, listing,
                    idx, entries, result, htRuns, envCount, last, mmRuns >>

\* One more file is discovered for the second list.
DiscoverB(d) ==
    /\ roots.status = "none"
    /\ Len(listB) < MaxFiles
    /\ listB' = Append(listB, RootEntry(Len(listB), d))
    /\ UNCHANGED << oracle, listA, roots, fs, day, clock, pc, args, listing,
                    idx, entries, result, htRuns, envCount, last, mmRuns >>

\* hash_tree's root hash and compute_root_hash are applied to both lists;
\* the two hash_tree results carry the timestamps read at the time.
ComputeRoots ==
    /\ roots.status = "none"
    /\ LET inA == HashTreeRootInput(listA)
           inB == HashTreeRootInput(listB)
           mA  == compute_root_hash_input(listA)
           mB  == compute_root_hash_input(listB)
           o1  == OracleAfter(oracle, inA)
           o2  == OracleAfter(o1, inB)
           o3  == OracleAfter(o2, mA)
           o4  == OracleAfter(o3, mB)
       IN /\ oracle' = o4
          /\ roots' = [status |-> "done",
                       htA |-> HexDigest(o4, inA), atA |-> clock,
                       htB |-> HexDigest(o4, inB), atB |-> clock + 1,
                       mmA |-> HexDigest(o4, mA),
                       mmB |-> HexDigest(o4, mB)]
          /\ clock' = clock + 2
    /\ UNCHANGED << listA, listB, fs, day, pc, args, listing, idx, entries,
                    result, htRuns, envCount, last, mmRuns >>

NextRoot ==
    \/ \E d \in SomeDigests : DiscoverA(d)
    \/ \E d \in SomeDigests : DiscoverB(d)
    \/ ComputeRoots

SpecRoot == InitRoot /\ [][NextRoot]_vars

\* The multiset of per-file digests of an entry list.
RECURSIVE DigestBag(_)
DigestBag(es) ==
    IF es = << >> THEN EmptyBag
    ELSE SetToBag({Head(es).sha256}) (+) DigestBag(Tail(es))

\* C1: order independence.  Two entry lists with the same multiset of
\* per-file digests, in whatever order the files were discovered and whatever
\* the timestamps, get the same root hash from hash_tree and from
\* compute_root_hash.
C1_OrderIndependence ==
    (roots.status = "done" /\ DigestBag(listA) = DigestBag(listB))
        => /\ roots.htA = roots.htB
           /\ roots.mmA = roots.mmB
           /\ roots.htA = roots.mmA

\* Two lists of three entries that are different permutations of the same
\* digests, with different timestamps, have been hashed.
C1_Witness ==
    /\ roots.status = "done"
    /\ Len(listA) = 3
    /\ DigestBag(listA) = DigestBag(listB)
    /\ Sha256Of(listA) # Sha256Of(listB)
    /\ Sha256Of(listA) # SortedStrs(Sha256Of(listA))
    /\ roots.atA # roots.atB

\* C7: root digest sensitivity.  Hashing being collision free, two entry
\* lists get the same root hash only if their multisets of per-file digests
\* are equal: another digest, one more or one fewer entry changes it.
C7_RootSensitivity ==
    roots.status = "done" =>
        /\ (roots.htA = roots.htB => DigestBag(listA) = DigestBag(listB))
        /\ (roots.mmA = roots.mmB => DigestBag(listA) = DigestBag(listB))

\* listB is listA with one more copy of a digest it already holds, and the
\* root hashes differ.
C7_Witness ==
    /\ roots.status = "done"
    /\ Len(listB) = Len(listA) + 1
    /\ SubSeq(listB, 1, Len(listA)) = listA
    /\ \E i \in 1..Len(listA) : listA[i].sha256 = listB[Len(listB)].sha256
    /\ roots.htA # roots.htB
    /\ roots.mmA # roots.mmB

---------------------------------------------------------------------------
(* Paths and the filesystem.                                               *)

\* str(path): the names joined by "/" (replace("\\", "/") changes nothing,
\* no name of the model holds a backslash).
RECURSIVE PathStr(_)
PathStr(p) ==
    IF p = << >> THEN << >>
    ELSE IF Len(p) = 1 THEN Head(p)
    ELSE Head(p) \o << "/" >> \o PathStr(Tail(p))

\* p < q for pathlib paths: PurePath.__lt__ compares the tuples of parts,
\* each part compared as a str.
RECURSIVE PartsLess(_, _)
PartsLess(p, q) ==
    IF q = << >> THEN FALSE
    ELSE IF p = << >> THEN TRUE
    ELSE IF Head(p) # Head(q) THEN StrLess(Head(p), Head(q))
    ELSE PartsLess(Tail(p), Tail(q))

\* sorted(paths) for a set of distinct paths.
RECURSIVE SortedPaths(_)
SortedPaths(S) ==
    IF S = {} THEN << >>
    ELSE LET m == CHOOSE x \in S : \A y \in S \ {x} : PartsLess(x, y)
         IN  << m >> \o SortedPaths(S \ {m})

\* path.name
BaseName(p) == p[Len(p)]

\* path.relative_to(directory)
RelativeTo(p, directory) == SubSeq(p, Len(directory) + 1, Len(p))

Exists(f, p) == p \in DOMAIN f
IsDir(f, p)  == p \in DOMAIN f /\ f[p].kind = "dir"
IsFile(f, p) == p \in DOMAIN f /\ f[p].kind = "file"

\* directory.rglob("*"): every file and directory below `directory'.
RGlob(f, directory) ==
    { p \in DOMAIN f : /\ Len(p) > Len(directory)
                       /\ SubSeq(p, 1, Len(directory)) = directory }

\* path.is_file() and not path.name.startswith(".")
Selected(f, p) == IsFile(f, p) /\ ~StartsWith(BaseName(p), << "." >>)

\* open(path, "rb") succeeds.
CanRead(f, p) == IsFile(f, p) /\ f[p].readable

\* open(path, "w") succeeds: the directory exists and the path is not a
\* directory or a protected file.
CanWrite(f, p) ==
    /\ IsDir(f, SubSeq(p, 1, Len(p) - 1))
    /\ (p \in DOMAIN f => f[p].kind = "file" /\ f[p].readable)

RegularFile(data) == [kind |-> "file", data |-> data, readable |-> TRUE]
Directory == [kind |-> "dir"]

\* The filesystem after `data' is written to p (created or truncated).
WriteFile(f, p, data) ==
    [q \in DOMAIN f \cup {p} |-> IF q = p THEN RegularFile(data) ELSE f[q]]

\* The preimage of a file's bytes.
FileBytes(data) == [kind |-> "bytes", data |-> data]

\* sha256_file(path), given the oracle that already holds the file's bytes.
sha256_file(orc, f, p) == HexDigest(orc, FileBytes(f[p].data))

---------------------------------------------------------------------------
(* SpecHT: the hash_tree.py command.                                       *)

\* Runs of hash_tree.py in one behaviour.
MaxRunsHT == 2
\* Steps of other processes in one behaviour of SpecHT.
MaxEnvHT == 1

DirT   == << << "t" >> >>
DirTA  == << << "t" >>, << "a" >> >>
FileX  == << << "t" >>, << "a" >>, << "x" >> >>
FileAB == << << "t" >>, << "a", ".", "b" >> >>
FileH  == << << "t" >>, << ".", "h" >> >>
DirO   == << << "o" >> >>
DirQ   == << << "q" >> >>

\* A directory `a' next to a file `a.b', a hidden file, and an empty
\* directory for --output.
TreeHT ==
    (DirT   :> Directory) @@
    (DirTA  :> Directory) @@
    (FileX  :> RegularFile([kind |-> "text", id |-> 1])) @@
    (FileAB :> RegularFile([kind |-> "text", id |-> 2])) @@
    (FileH  :> RegularFile([kind |-> "text", id |-> 3])) @@
    (DirO   :> Directory)

\* sys.argv[1]: a directory, a regular file, a path that does not exist.
TargetsHT == { DirT, FileAB, DirQ }
\* What follows the target in sys.argv: nothing, or --output <dir> with a
\* directory that exists or one that does not.
OutputOptsHT == { << >>, << DirO >>, << DirQ >> }

InitHT ==
    /\ oracle = << >>
    /\ listA = << >>
    /\ listB = << >>
    /\ roots = [status |-> "none"]
    /\ fs = TreeHT
    /\ day = 0
    /\ clock = 0
    /\ envCount = 0
    /\ IdleHT
    /\ IdleMM

\* The record of a finished run: what it was asked, how it ended, what it
\* returned, and the count of foreign steps when it started and ended.
RunRecord(status, files, root_hash) ==
    [target |-> args.target, output_dir |-> args.output_dir,
     status |-> status, files |-> files, root_hash |-> root_hash,
     walked |-> args.walked, env0 |-> args.env0, env1 |-> envCount]

\* The process ends (exit 0, or an uncaught exception).
Finish(status, files, root_hash) ==
    /\ htRuns' = Append(htRuns, RunRecord(status, files, root_hash))
    /\ pc' = "idle"
    /\ args' = NoArgs
    /\ listing' = << >>
    /\ idx' = 1
    /\ entries' = << >>
    /\ result' = [status |-> "none"]

UnchangedRoot == UNCHANGED << listA, listB, roots >>
UnchangedMM == UNCHANGED << last, mmRuns >>

\* main reads sys.argv and calls hash_tree, which resolves the directory,
\* raises ValueError unless it is a directory, and snapshots the sorted walk.
HTStart(target, opt) ==
    /\ pc = "idle"
    /\ Len(htRuns) < MaxRunsHT
    /\ LET output_dir == IF opt = << >> THEN target ELSE opt[1]
           started == [target |-> target, output_dir |-> output_dir,
                       env0 |-> envCount,
                       walked |-> { p \in RGlob(fs, target) : Selected(fs, p) }]
       IN IF ~IsDir(fs, target)
          THEN /\ htRuns' = Append(htRuns,
                       [target |-> target, output_dir |-> output_dir,
                        status |-> "failed", files |-> << >>,
                        root_hash |-> << >>, walked |-> {},
                        env0 |-> envCount, env1 |-> envCount])
               /\ UNCHANGED << pc, args, listing, idx, entries, result >>
          ELSE /\ args' = started
               /\ listing' = SortedPaths(RGlob(fs, target))
               /\ idx' = 1
               /\ entries' = << >>
               /\ pc' = "loop"
               /\ UNCHANGED << result, htRuns >>
    /\ UNCHANGED << oracle, fs, day, clock, envCount >>
    /\ UnchangedRoot /\ UnchangedMM

\* The for loop takes the next path and tests it.
HTIsFile ==
    /\ pc = "loop"
    /\ idx <= Len(listing)
    /\ IF Selected(fs, listing[idx])
       THEN pc' = "read" /\ idx' = idx
       ELSE pc' = "loop" /\ idx' = idx + 1
    /\ UNCHANGED << oracle, fs, day, clock, args, listing, entries, result,
                    htRuns, envCount >>
    /\ UnchangedRoot /\ UnchangedMM

\* The entry of the path is built: sha256_file opens and reads the file.
HTDigest ==
    /\ pc = "read"
    /\ LET path == listing[idx]
       IN IF ~CanRead(fs, path)
          THEN /\ Finish("failed", << >>, << >>)
               /\ UNCHANGED oracle
          ELSE LET orc == OracleAfter(oracle, FileBytes(fs[path].data))
               IN /\ oracle' = orc
                  /\ entries' = Append(entries,
                        [path |-> PathStr(RelativeTo(path, args.target)),
                         sha256 |-> sha256_file(orc, fs, path)])
                  /\ idx' = idx + 1
                  /\ pc' = "loop"
                  /\ UNCHANGED << args, listing, result, htRuns >>
    /\ UNCHANGED << fs, day, clock, envCount >>
    /\ UnchangedRoot /\ UnchangedMM

\* After the loop: the root hash and the returned dict.
HTRoot ==
    /\ pc = "loop"
    /\ idx > Len(listing)
    /\ LET input == HashTreeRootInput(entries)
           orc == OracleAfter(oracle, input)
       IN /\ oracle' = orc
          /\ result' = [status |-> "ok",
                        directory |-> PathStr(args.target),
                        file_count |-> Len(entries),
                        files |-> entries,
                        root_hash |-> HexDigest(orc, input),
                        computed_at |-> [day |-> day, tick |-> clock]]
    /\ clock' = clock + 1
    /\ pc' = "write"
    /\ UNCHANGED << fs, day, args, listing, idx, entries, htRuns, envCount >>
    /\ UnchangedRoot /\ UnchangedMM

\* f"{entry['sha256']}  {entry['path']}\n" for every entry
RECURSIVE Sha256Lines(_)
Sha256Lines(es) ==
    IF es = << >> THEN << >>
    ELSE << Head(es).sha256 \o << " ", " " >> \o Head(es).path >>
         \o Sha256Lines(Tail(es))

NameFilesSha256 == << "f", "i", "l", "e", "s", ".", "s", "h", "a", "2", "5", "6" >>
NameRootHashTxt == << "r", "o", "o", "t", "_", "h", "a", "s", "h", ".", "t", "x", "t" >>
NameHashTreeJson == << "h", "a", "s", "h", "_", "t", "r", "e", "e", ".", "j", "s", "o", "n" >>

\* main writes files.sha256, root_hash.txt and hash_tree.json, in this order;
\* the first open that fails ends the process.
HTWrite ==
    /\ pc = "write"
    /\ LET out == args.output_dir
           sha_path  == Append(out, NameFilesSha256)
           root_path == Append(out, NameRootHashTxt)
           json_path == Append(out, NameHashTreeJson)
           ok1 == CanWrite(fs, sha_path)
           f1  == IF ok1
                  THEN WriteFile(fs, sha_path,
                         [kind |-> "lines", lines |-> Sha256Lines(result.files)])
                  ELSE fs
           ok2 == ok1 /\ CanWrite(f1, root_path)
           f2  == IF ok2
                  THEN WriteFile(f1, root_path,
                         [kind |-> "lines", lines |-> << result.root_hash >>])
                  ELSE f1
           ok3 == ok2 /\ CanWrite(f2, json_path)
           f3  == IF ok3
                  THEN WriteFile(f2, json_path,
                         [kind |-> "json_dict", value |-> result])
                  ELSE f2
       IN /\ fs' = f3
          /\ IF ok3
             THEN Finish("ok", result.files, result.root_hash)
             ELSE Finish("failed", << >>, << >>)
    /\ UNCHANGED << oracle, day, clock, envCount >>
    /\ UnchangedRoot /\ UnchangedMM

\* The files other processes may touch.
EnvFilesHT == { FileX, FileAB, FileH }

\* Another process deletes a file.
EnvDelete(p) ==
    /\ envCount < MaxEnvHT
    /\ IsFile(fs, p)
    /\ fs' = [q \in DOMAIN fs \ {p} |-> fs[q]]
    /\ envCount' = envCount + 1
    /\ UNCHANGED << oracle, day, clock, pc, args, listing, idx, entries,
                    result, htRuns >>
    /\ UnchangedRoot /\ UnchangedMM

\* Another process makes a file unreadable (chmod 000).
EnvProtect(p) ==
    /\ envCount < MaxEnvHT
    /\ IsFile(fs, p)
    /\ fs[p].readable
    /\ fs' = [fs EXCEPT ![p].readable = FALSE]
    /\ envCount' = envCount + 1
    /\ UNCHANGED << oracle, day, clock, pc, args, listing, idx, entries,
                    result, htRuns >>
    /\ UnchangedRoot /\ UnchangedMM

NextHT ==
    \/ \E target \in TargetsHT, opt \in OutputOptsHT : HTStart(target, opt)
    \/ HTIsFile
    \/ HTDigest
    \/ HTRoot
    \/ HTWrite
    \/ \E p \in EnvFilesHT : EnvDelete(p)
    \/ \E p \in EnvFilesHT : EnvProtect(p)

SpecHT == InitHT /\ [][NextHT]_vars

\* The entry paths of a finished run.
EntryPaths(files) == { files[i].path : i \in 1..Len(files) }

\* C4: no partial inventory.  A run that emitted its artifacts holds an
\* entry for every eligible file its walk listed; a listed file that was
\* deleted or made unreadable before it was digested aborts the run.
C4_NoPartialInventory ==
    \A i \in 1..Len(htRuns) :
        htRuns[i].status = "ok" =>
            EntryPaths(htRuns[i].files) =
                { PathStr(RelativeTo(p, htRuns[i].target)) : p \in htRuns[i].walked }

\* C5: two runs in succession of the same command line, no other process
\* touching the tree from the start of the first to the end of the second,
\* give the same file list, per-file digests and root hash.
C5_RepeatedRunsAgree ==
    \A i \in 1..(Len(htRuns) - 1) :
        ( /\ htRuns[i].target = htRuns[i + 1].target
          /\ htRuns[i].output_dir = htRuns[i + 1].output_dir
          /\ htRuns[i].env0 = htRuns[i + 1].env1
          /\ htRuns[i].status = "ok" )
        => /\ htRuns[i + 1].status = "ok"
           /\ htRuns[i + 1].files = htRuns[i].files
           /\ htRuns[i + 1].root_hash = htRuns[i].root_hash

\* C6: the entries of a run, and so the lines of files.sha256, are in
\* ascending order of the full path string.
C6_SortedByPathString ==
    \A r \in 1..Len(htRuns) :
        \A i, j \in 1..Len(htRuns[r].files) :
            i < j => StrLess(htRuns[r].files[i].path, htRuns[r].files[j].path)

---------------------------------------------------------------------------
(* SpecMM: the make_manifest.py command.                                   *)

\* Runs of make_manifest.py in one behaviour.
MaxRunsMM == 2
\* Values uuid.uuid4().hex[:8] is drawn from.
NumUids == 2
\* Midnights (UTC) in one behaviour.
MaxDay == 1

\* The keys of SOURCE_REGISTRY.
SOURCE_REGISTRY ==
    { << "e", "n", "t", "s", "o", "e", "_", "d", "a", "y", "_", "a", "h", "e", "a", "d" >>,
      << "e", "u", "r", "o", "s", "t", "a", "t", "_", "h", "d", "d" >>,
      << "e", "u", "r", "o", "s", "t", "a", "t", "_", "p", "r", "i", "c", "e", "_",
         "c", "o", "m", "p", "o", "n", "e", "n", "t", "s" >>,
      << "s", "m", "h", "i", "_", "t", "e", "m", "p", "e", "r", "a", "t", "u", "r", "e" >>,
      << "c", "o", "p", "e", "r", "n", "i", "c", "u", "s", "_", "t", "e", "m", "p", "e",
         "r", "a", "t", "u", "r", "e" >>,
      << "b", "u", "i", "l", "d", "i", "n", "g", "_", "p", "r", "o", "f", "i", "l", "e", "s" >> }

\* The --source the runs of the model are given: eurostat_hdd.
SourcesMM == { src \in SOURCE_REGISTRY : Len(src) = 12 }

DirR    == << << "r" >> >>
FileRX  == << << "r" >>, << "x" >> >>
FileRJ  == << << "r" >>, << "j", ".", "j", "s", "o", "n" >> >>
DirC    == << << "c" >> >>
FileCA  == << << "c" >>, << "a", ".", "j", "s", "o", "n" >> >>
FileCB  == << << "c" >>, << "b", ".", "j", "s", "o", "n" >> >>
FileCN  == << << "c" >>, << "n", ".", "j", "s", "o", "n" >> >>
FileCK  == << << "c" >>, << ".", "k", ".", "j", "s", "o", "n" >> >>
DirCD   == << << "c" >>, << "d" >> >>
FileCDO == << << "c" >>, << "d" >>, << "o", ".", "j", "s", "o", "n" >> >>
DirE    == << << "e" >> >>
FileEK  == << << "e" >>, << ".", "k", "e", "e", "p" >> >>
DirU    == << << "u" >> >>
FileUP  == << << "u" >>, << "p", ".", "j", "s", "o", "n" >> >>
DirManifests == << << "m", "a", "n", "i", "f", "e", "s", "t", "s" >> >>

\* File contents: a JSON array of `items' records, another JSON value, or
\* text that is not JSON.
JsonList(items) == [kind |-> "json_list", items |-> items]
JsonOther(id)   == [kind |-> "json_other", id |-> id]
Text(id)        == [kind |-> "text", id |-> id]

\* r: a raw tree holding a JSON array; c: a.json = [1,2], b.json = [3], a
\* file that is not JSON, a hidden JSON array and a subdirectory d with a
\* JSON object; e: only a hidden file; u: an unreadable file.
TreeMM ==
    (DirR    :> Directory) @@
    (FileRX  :> RegularFile(Text(1))) @@
    (FileRJ  :> RegularFile(JsonList(5))) @@
    (DirC    :> Directory) @@
    (FileCA  :> RegularFile(JsonList(2))) @@
    (FileCB  :> RegularFile(JsonList(1))) @@
    (FileCN  :> RegularFile(Text(2))) @@
    (FileCK  :> RegularFile(JsonList(7))) @@
    (DirCD   :> Directory) @@
    (FileCDO :> RegularFile(JsonOther(1))) @@
    (DirE    :> Directory) @@
    (FileEK  :> RegularFile(Text(3))) @@
    (DirU    :> Directory) @@
    (FileUP  :> [kind |-> "file", data |-> JsonList(1), readable |-> FALSE])

\* --raw, --canonical and --derived (absent, or one path) of a run.
StageArgsMM ==
    { << DirR, DirC, << >> >>,
      << DirR, DirC, << DirCD >> >>,
      << DirC, DirC, << >> >>,
      << DirQ, DirC, << >> >>,
      << DirE, DirQ, << >> >>,
      << DirE, DirE, << FileRX >> >>,
      << DirR, DirManifests, << >> >>,
      << DirR, DirU, << >> >> }

\* --output (the default, manifests/).
OutputsMM == { DirManifests }

InitMM ==
    /\ oracle = << >>
    /\ listA = << >>
    /\ listB = << >>
    /\ roots = [status |-> "none"]
    /\ fs = TreeMM
    /\ day = 0
    /\ clock = 0
    /\ envCount = 0
    /\ IdleHT
    /\ IdleMM

\* The loop of collect_files over the sorted walk: the entries, or the
\* exception of the first file that cannot be read.
RECURSIVE CollectLoop(_, _, _, _, _)
CollectLoop(orc, f, paths, stage, acc) ==
    IF paths = << >> THEN [ok |-> TRUE, orc |-> orc, entries |-> acc]
    ELSE LET path == Head(paths)
         IN IF ~Selected(f, path)
            THEN CollectLoop(orc, f, Tail(paths), stage, acc)
            ELSE IF ~CanRead(f, path)
            THEN [ok |-> FALSE, orc |-> orc, entries |-> acc]
            ELSE LET o2 == OracleAfter(orc, FileBytes(f[path].data))
                 IN CollectLoop(o2, f, Tail(paths), stage,
                        Append(acc, [path |-> PathStr(path),
                                     sha256 |-> sha256_file(o2, f, path),
                                     stage |-> stage]))

\* collect_files(directory, stage)
collect_files(orc, f, directory, stage) ==
    IF ~Exists(f, directory)
    THEN [ok |-> TRUE, orc |-> orc, entries |-> << >>]
    ELSE CollectLoop(orc, f, SortedPaths(RGlob(f, directory)), stage, << >>)

\* The raw entries extended twice.
AllFiles_RawTwice(raw_entries, canonical_entries, derived_entries) ==
    raw_entries \o raw_entries \o canonical_entries \o derived_entries

\* all_files after the extend calls of main.
AllFiles(raw_entries, canonical_entries, derived_entries) ==
    raw_entries \o canonical_entries \o derived_entries

\* The check for an empty collection left out.
EmptyAbort_Never(all_files) == FALSE

\* if not all_files: sys.exit(1)
EmptyAbort(all_files) == all_files = << >>

\* What the try block adds to record_count for one file: len(data) when
\* json.load gives a list, nothing when it gives something else or raises.
RecordsIn(f, path_str) ==
    LET found == { p \in DOMAIN f : PathStr(p) = path_str }
    IN IF found = {} THEN 0
       ELSE LET p == CHOOSE q \in found : TRUE
            IN IF CanRead(f, p) /\ f[p].data.kind = "json_list"
               THEN f[p].data.items
               ELSE 0

\* The loop without the test of the stage.
RECURSIVE CountRecords_AnyStage(_, _)
CountRecords_AnyStage(f, all_files) ==
    IF all_files = << >> THEN 0
    ELSE LET e == Head(all_files)
         IN (IF EndsWith(e.path, << ".", "j", "s", "o", "n" >>)
             THEN RecordsIn(f, e.path)
             ELSE 0)
            + CountRecords_AnyStage(f, Tail(all_files))

\* The record_count loop of main.
RECURSIVE CountRecords(_, _)
CountRecords(f, all_files) ==
    IF all_files = << >> THEN 0
    ELSE LET e == Head(all_files)
         IN (IF e.stage = "canonical"
                /\ EndsWith(e.path, << ".", "j", "s", "o", "n" >>)
             THEN RecordsIn(f, e.path)
             ELSE 0)
            + CountRecords(f, Tail(all_files))

\* now.strftime("%Y%m%d"), day 0 being 2026-02-01.
DateStr(d) ==
    << "2", "0", "2", "6", "0", "2" >>
    \o << HexDigits[((d + 1) \div 10) + 1], HexDigits[((d + 1) % 10) + 1] >>

\* f"IM-{args.source}-{date_str}-{uid}"
ManifestId(source, date_str, uid) ==
    << "I", "M", "-" >> \o source \o << "-" >> \o date_str \o << "-" >> \o uid

\* output_dir.mkdir(parents=True, exist_ok=True): the filesystem with the
\* directory and its missing parents.
MkDirParents(f, dir) ==
    LET missing == { SubSeq(dir, 1, k) : k \in 1..Len(dir) } \ DOMAIN f
    IN [q \in DOMAIN f \cup missing |-> IF q \in DOMAIN f THEN f[q] ELSE Directory]

\* mkdir raises when a prefix of the path is a regular file.
MkDirFails(f, dir) == \E k \in 1..Len(dir) : IsFile(f, SubSeq(dir, 1, k))

NoRun(source, stage_args, output, outcome) ==
    [outcome |-> outcome, source |-> source, raw |-> stage_args[1],
     canonical |-> stage_args[2], derived |-> stage_args[3],
     output |-> output, manifest_path |-> << >>, manifest |-> [files |-> << >>]]

\* One run of main.  The optional --country, --zone and --period-* are not
\* given, so parameters is empty and dataset_id ends in the date.
MakeManifest(source, stage_args, output, uid) ==
    /\ mmRuns < MaxRunsMM
    /\ mmRuns' = mmRuns + 1
    /\ clock' = clock + 1
    /\ \E raw \in { collect_files(oracle, fs, stage_args[1], "raw") } :
       \E canonical \in { IF raw.ok
                          THEN collect_files(raw.orc, fs, stage_args[2], "canonical")
                          ELSE raw } :
       \E derived \in { IF canonical.ok /\ stage_args[3] # << >>
                        THEN collect_files(canonical.orc, fs, stage_args[3][1], "derived")
                        ELSE [ok |-> canonical.ok, orc |-> canonical.orc,
                              entries |-> << >>] } :
       \E all_files \in { AllFiles(raw.entries, canonical.entries, derived.entries) } :
       \E root_input \in { compute_root_hash_input(all_files) } :
       \E orc \in { OracleAfter(derived.orc, root_input) } :
       \E made \in { MkDirParents(fs, output) } :
       LET date_str == DateStr(day)
           manifest_id == ManifestId(source, date_str, uid)
           manifest ==
               [manifest_id |-> manifest_id,
                source |-> [name |-> source,
                            dataset_id |-> source \o << "_" >> \o date_str],
                ingest |-> [fetched_at |-> [day |-> day, tick |-> clock]],
                files |-> all_files,
                root_hash |-> HexDigest(orc, root_input),
                record_count |-> CountRecords(fs, all_files),
                created_at |-> [day |-> day, tick |-> clock]]
           manifest_path == Append(output, manifest_id \o << ".", "j", "s", "o", "n" >>)
       IN IF ~(raw.ok /\ canonical.ok /\ derived.ok)
          THEN /\ oracle' = derived.orc
               /\ last' = NoRun(source, stage_args, output, "failed")
               /\ fs' = fs
          ELSE IF EmptyAbort(all_files)
          THEN /\ oracle' = derived.orc
               /\ last' = NoRun(source, stage_args, output, "failed")
               /\ fs' = fs
          ELSE IF MkDirFails(fs, output)
          THEN /\ oracle' = orc
               /\ last' = NoRun(source, stage_args, output, "failed")
               /\ fs' = fs
          ELSE IF ~CanWrite(made, manifest_path)
          THEN /\ oracle' = orc
               /\ last' = NoRun(source, stage_args, output, "failed")
               /\ fs' = made
          ELSE \E written \in { manifest } :
               /\ oracle' = orc
               /\ last' = [NoRun(source, stage_args, output, "ok") EXCEPT
                              !.manifest_path = manifest_path,
                              !.manifest = written]
               /\ fs' = WriteFile(made, manifest_path,
                                  [kind |-> "json_dict", value |-> written])
    /\ UNCHANGED << day, envCount >>
    /\ UNCHANGED << pc, args, listing, idx, entries, result, htRuns >>
    /\ UnchangedRoot

\* The UTC date changes.
Midnight ==
    /\ day < MaxDay
    /\ day' = day + 1
    /\ UNCHANGED << oracle, fs, clock, envCount, last, mmRuns >>
    /\ UNCHANGED << pc, args, listing, idx, entries, result, htRuns >>
    /\ UnchangedRoot

NextMM ==
    \/ \E source \in SourcesMM, stage_args \in StageArgsMM, output \in OutputsMM,
          n \in 1..NumUids :
          MakeManifest(source, stage_args, output, ToHex(n, 8))
    \/ Midnight

SpecMM == InitMM /\ [][NextMM]_vars

---------------------------------------------------------------------------
(* The claims about make_manifest.py.                                      *)

\* The eligible files of a directory: the regular files anywhere below it
\* whose name does not begin with a dot.
EligibleFiles(f, dir) ==
    { p \in DOMAIN f : /\ f[p].kind = "file"
                       /\ Len(p) > Len(dir)
                       /\ \A k \in 1..Len(dir) : p[k] = dir[k]
                       /\ Head(p[Len(p)]) # "." }

\* The directories a run was given, by stage.
StageDirs(run) ==
    { << "raw", run.raw >>, << "canonical", run.canonical >> }
    \cup { << "derived", run.derived[k] >> : k \in 1..Len(run.derived) }

\* The eligible files of all the directories of a run.
AllEligible(f, run) ==
    UNION { EligibleFiles(f, sd[2]) : sd \in StageDirs(run) }

\* C2: empty-tree rejection.  A build whose raw, canonical and (if given)
\* derived directories hold no eligible file ends in failure and leaves the
\* filesystem, the output directory included, as it was.
C2_EmptyTreeRejected ==
    [][ (mmRuns' = mmRuns + 1 /\ AllEligible(fs, last') = {})
            => (last'.outcome = "failed" /\ fs' = fs) ]_vars

\* A build with a derived directory has failed over directories that hold
\* nothing but a hidden file, and no output directory exists.
C2_Witness ==
    /\ mmRuns > 0
    /\ last.outcome = "failed"
    /\ last.derived # << >>
    /\ last.raw = DirE
    /\ AllEligible(fs, last) = {}
    /\ ~Exists(fs, DirManifests)

\* C3: a build given a directory path that does not exist or is not a
\* directory fails and writes nothing.
C3_InvalidDirectoryFails ==
    [][ ( /\ mmRuns' = mmRuns + 1
          /\ \E sd \in StageDirs(last') :
                ~(sd[2] \in DOMAIN fs /\ fs[sd[2]].kind = "dir") )
            => (last'.outcome = "failed" /\ fs' = fs) ]_vars

\* C8: manifests are write-once.  Every successful build creates a manifest
\* file that did not exist and leaves every existing file as it was.
C8_ManifestsWriteOnce ==
    [][ (mmRuns' = mmRuns + 1 /\ last'.outcome = "ok")
            => /\ last'.manifest_path \notin DOMAIN fs
               /\ \A p \in DOMAIN fs : p \in DOMAIN fs' /\ fs'[p] = fs[p] ]_vars

\* The sum of the list lengths of the files of S.
RECURSIVE ListLengthSum(_, _)
ListLengthSum(f, S) ==
    IF S = {} THEN 0
    ELSE LET p == CHOOSE q \in S : TRUE
         IN f[p].data.items + ListLengthSum(f, S \ {p})

\* The canonical files that count: below the canonical directory, path
\* ending in .json, content a JSON list.
CountedFiles(f, run) ==
    { p \in EligibleFiles(f, run.canonical) :
        /\ EndsWith(PathStr(p), << ".", "j", "s", "o", "n" >>)
        /\ f[p].data.kind = "json_list" }

\* C9: record count.  In a successful build record_count is the sum of the
\* list lengths of the canonical files whose path ends in .json and whose
\* content is a JSON list; and a build fails only for want of eligible
\* files, over a file it cannot read, or over an output directory it cannot
\* create, never over what a file parses to.
C9_RecordCount ==
    [][ mmRuns' = mmRuns + 1 =>
          /\ last'.outcome = "ok" =>
                last'.manifest.record_count
                    = ListLengthSum(fs, CountedFiles(fs, last'))
          /\ last'.outcome = "failed" =>
                \/ AllEligible(fs, last') = {}
                \/ \E p \in AllEligible(fs, last') : ~fs[p].readable
                \/ \E k \in 1..Len(last'.output) :
                      LET d == SubSeq(last'.output, 1, k)
                      IN d \in DOMAIN fs /\ fs[d].kind = "file" ]_vars

\* The worked example: a successful build over the canonical directory with
\* a.json = [1,2] and b.json = [3], a file that is not JSON and a JSON
\* object, and a raw directory with a JSON list, counts 3 records.
C9_Witness ==
    /\ last.outcome = "ok"
    /\ last.raw = DirR
    /\ last.canonical = DirC
    /\ last.derived = << DirCD >>
    /\ last.manifest.record_count = 3
    /\ \E i \in 1..Len(last.manifest.files) :
          /\ last.manifest.files[i].stage = "raw"
          /\ last.manifest.files[i].path = PathStr(FileRJ)
    /\ \E i \in 1..Len(last.manifest.files) :
          /\ last.manifest.files[i].stage = "canonical"
          /\ last.manifest.files[i].path = PathStr(FileCN)

\* C10 as claimed: no path appears more than once in the files list of a
\* manifest.
C10_NoPathTwice ==
    last.outcome = "ok" =>
        \A i, j \in 1..Len(last.manifest.files) :
            i # j => last.manifest.files[i].path # last.manifest.files[j].path

\* C10 as amended: the entries of one stage are the eligible files of the
\* directory given for that stage, each once; so a path appears once for
\* every stage whose directory holds the file.
C10_OncePerStage ==
    [][ (mmRuns' = mmRuns + 1 /\ last'.outcome = "ok") =>
          LET files == last'.manifest.files
              Tagged(stage) == { i \in 1..Len(files) : files[i].stage = stage }
          IN /\ \A i \in 1..Len(files) :
                   \E sd \in StageDirs(last') : sd[1] = files[i].stage
             /\ \A sd \in StageDirs(last') :
                   /\ { files[i].path : i \in Tagged(sd[1]) }
                        = { PathStr(p) : p \in EligibleFiles(fs, sd[2]) }
                   /\ \A i, j \in Tagged(sd[1]) :
                        i # j => files[i].path # files[j].path ]_vars

\* A manifest was written in which one file is listed under two stages.
C10_Witness ==
    /\ last.outcome = "ok"
    /\ \E i, j \in 1..Len(last.manifest.files) :
          /\ last.manifest.files[i].path = last.manifest.files[j].path
          /\ last.manifest.files[i].stage = "canonical"
          /\ last.manifest.files[j].stage = "derived"

=============================================================================
